---- MODULE Spec2Model ----
(***************************************************************************)
(* A model of the command-line HTTP client of src/src/main.rs: main's      *)
(* pipeline (URL parse, host check, port check, request, rendering) as a   *)
(* state machine, and its pure helpers (check_ip_address, parse_data,      *)
(* sort_json, handle_response) as operators over bounded inputs.           *)
(*                                                                         *)
(* Text is a sequence of one-character strings: <<"1", ".", "2">> is the   *)
(* string "1.2".  Option<T> is a record [some, val]; Result<T, String> is  *)
(* a record [ok, val, err].                                                *)
(***************************************************************************)
EXTENDS Integers, Sequences, FiniteSets, TLC

VARIABLES
    \* ---- main (Spec) ----
    url_input,    \* args.url, by its components as written
    method_input, \* args.method as typed
    data,         \* args.data : Option<String>
    pc,           \* main's position
    method,       \* args.method.to_uppercase()
    url,          \* the parsed Url (host_str(), port())
    out,          \* the lines printed so far
    requests,     \* the requests handed to the transport so far
    calls,        \* the checks and the dispatch called so far, in order
    answer,       \* what the transport answered to the request
    result,       \* make_request's Result<String, String>
    \* ---- check_ip_address alone (SpecHost) ----
    h_in, h_out,
    \* ---- parse_data alone (SpecData) ----
    d_in, d_out,
    \* ---- handle_response alone (SpecJson) ----
    j_in, j_out

mainVars ==
    <<url_input, method_input, data, pc, method, url, out, requests, calls, answer, result>>
hostVars == <<h_in, h_out>>
dataVars == <<d_in, d_out>>
jsonVars == <<j_in, j_out>>
vars == <<mainVars, hostVars, dataVars, jsonVars>>

----------------------------------------------------------------------------
(* Bounds of the model. *)

\* Longest host string enumerated over HostAlphabet.
MaxHostLen == 7

----------------------------------------------------------------------------
(* Option and Result. *)

None == [some |-> FALSE, val |-> <<>>]
Some(x) == [some |-> TRUE, val |-> x]

\* A formatted message: the format's text followed by the characters of its
\* one argument (<<>> when it has none).
Msg(fmt, arg) == <<fmt>> \o arg

Ok(x) == [ok |-> TRUE, val |-> x, err |-> <<>>]
Err(e) == [ok |-> FALSE, val |-> <<>>, err |-> e]

\* Not yet computed.
Pending == [ok |-> FALSE, val |-> <<>>, err |-> <<"(pending)">>]

\* One println!: what it prints before its argument, and the argument: a
\* text, or the lexemes of a body.
Line(kind, text) == [kind |-> kind, text |-> text, body |-> <<>>]
BodyLine(kind, body) == [kind |-> kind, text |-> <<>>, body |-> body]

----------------------------------------------------------------------------
(* Characters and text. *)

Digits == {"0", "1", "2", "3", "4", "5", "6", "7", "8", "9"}

\* char::to_digit(10) of a decimal digit.
DigitVal(c) ==
    CASE c = "0" -> 0 [] c = "1" -> 1 [] c = "2" -> 2 [] c = "3" -> 3 [] c = "4" -> 4
      [] c = "5" -> 5 [] c = "6" -> 6 [] c = "7" -> 7 [] c = "8" -> 8 [] c = "9" -> 9

HexDigits == Digits \cup {"a", "b", "c", "d", "e", "f", "A", "B", "C", "D", "E", "F"}

\* All texts over alphabet A of length at most n.
TextsUpTo(A, n) == UNION {[1..k -> A] : k \in 0..n}

\* s without its first i-1 characters.
From(s, i) == SubSeq(s, i, Len(s))

\* Index of the first position >= i of s whose character is not in set C
\* (Len(s) + 1 when there is none).
RECURSIVE SkipWhile(_, _, _)
SkipWhile(s, i, C) ==
    IF i > Len(s) \/ s[i] \notin C THEN i ELSE SkipWhile(s, i + 1, C)

----------------------------------------------------------------------------
(* std::net::Ipv4Addr::from_str, as called at main.rs:93: four decimal     *)
(* numbers separated by '.', each of at most three digits, at most 255,    *)
(* without a leading zero, and nothing after the fourth.                   *)

\* The u8 value of the digits s[i..j-1], or 256 once it overflows u8
\* (checked_mul / checked_add fail).
RECURSIVE ReadDigits(_, _, _, _)
ReadDigits(s, i, j, acc) ==
    IF i >= j THEN acc
    ELSE LET v == acc * 10 + DigitVal(s[i])
         IN IF v > 255 THEN 256 ELSE ReadDigits(s, i + 1, j, v)

\* A faulty variant: an octet of up to three digits is accepted whatever its value.
ReadNumberAcceptAnyValue(s, i, j) ==
    /\ j - i >= 1
    /\ j - i <= 3
    /\ ~(s[i] = "0" /\ j - i > 1)

\* Parser::read_number(10, Some(3), false) read the digits s[i..j-1]:
\* whether they are a number it accepts.
ReadNumberAccept(s, i, j) ==
    /\ j - i >= 1
    /\ j - i <= 3
    /\ ReadDigits(s, i, j, 0) <= 255
    /\ ~(s[i] = "0" /\ j - i > 1)

\* The position after the number read at position i of s, or 0 when no
\* number is read.
ReadNumber(s, i) ==
    LET j == SkipWhile(s, i, Digits)
    IN IF ReadNumberAccept(s, i, j) THEN j ELSE 0

\* Parser::read_ipv4_addr from position i with n groups still to read.
RECURSIVE ReadIpv4Groups(_, _, _)
ReadIpv4Groups(s, i, n) ==
    LET j == ReadNumber(s, i)
    IN IF j = 0 THEN FALSE
       ELSE IF n = 1 THEN j = Len(s) + 1
       ELSE /\ j <= Len(s)
            /\ s[j] = "."
            /\ ReadIpv4Groups(s, j + 1, n - 1)

Ipv4FromStr(s) == Len(s) <= 15 /\ ReadIpv4Groups(s, 1, 4)

----------------------------------------------------------------------------
(* std::net::Ipv6Addr::from_str, as called at main.rs:99, for texts        *)
(* without an embedded IPv4 tail: groups of one to four hex digits         *)
(* separated by ':', eight of them, or fewer around one "::".              *)

\* The number of ':'-separated groups of s when s is a well-formed run of
\* groups ("" has 0), or -1 when it is not.
RECURSIVE Ipv6Groups(_, _)
Ipv6Groups(s, i) ==
    IF Len(s) = 0 THEN 0
    ELSE LET j == SkipWhile(s, i, HexDigits)
         IN IF j - i < 1 \/ j - i > 4 THEN -1
            ELSE IF j = Len(s) + 1 THEN 1
            ELSE IF s[j] # ":" THEN -1
            ELSE LET rest == Ipv6Groups(s, j + 1)
                 IN IF rest < 1 THEN -1 ELSE rest + 1

\* The positions at which "::" starts in s.
DoubleColons(s) == {i \in 1..(Len(s) - 1) : s[i] = ":" /\ s[i + 1] = ":"}

Ipv6FromStr(s) ==
    \/ Ipv6Groups(s, 1) = 8
    \/ \E i \in DoubleColons(s) :
          LET head == Ipv6Groups(SubSeq(s, 1, i - 1), 1)
              tail == Ipv6Groups(From(s, i + 2), 1)
          IN head >= 0 /\ tail >= 0 /\ head + tail <= 7

----------------------------------------------------------------------------
(* check_ip_address (main.rs:90-117) on url.host_str().                    *)

InvalidIpv6Msg == Msg("The URL contains an invalid IPv6 address.", <<>>)
InvalidIpv4Msg == Msg("The URL contains an invalid IPv4 address.", <<>>)
NoHostMsg == Msg("The URL does not contain a host.", <<>>)
InvalidPortMsg == Msg("The URL contains an invalid port number.", <<>>)

starts_with(s, c) == Len(s) >= 1 /\ s[1] = c
ends_with(s, c) == Len(s) >= 1 /\ s[Len(s)] = c

\* A faulty variant: the digit-and-dot heuristic is left out.
NeverDigitsOrDots(s) == FALSE

\* host_str.chars().all(|c| c.is_digit(10) || c == '.')
AllDigitsOrDots(s) == \A i \in 1..Len(s) : s[i] \in Digits \cup {"."}

check_ip_address(host_str) ==
    IF ~host_str.some THEN Err(NoHostMsg)
    ELSE LET h == host_str.val
         IN IF Ipv4FromStr(h) THEN Ok(<<>>)
            ELSE IF starts_with(h, "[") /\ ends_with(h, "]")
                 THEN LET ipv6_str == SubSeq(h, 2, Len(h) - 1)
                      IN IF ~Ipv6FromStr(ipv6_str) THEN Err(InvalidIpv6Msg) ELSE Ok(<<>>)
            ELSE IF AllDigitsOrDots(h) THEN Err(InvalidIpv4Msg)
            ELSE Ok(<<>>)

----------------------------------------------------------------------------
(* check_ip_address alone: SpecHost draws a host and applies the check.    *)

\* Longest interior of a bracketed host enumerated over Ipv6Alphabet.
MaxV6Len == 4

HostAlphabet == {"1", ".", "a"}
Ipv6Alphabet == {":", "1", "f", "z"}

\* Octet texts in range, out of range, with a leading zero, too long.
OctetTexts ==
    { <<"0">>, <<"0", "1">>, <<"9">>, <<"2", "5", "5">>, <<"2", "5", "6">>,
      <<"9", "9", "9">>, <<"1", "0", "0", "0">> }

Dotted(a, b) == a \o <<".">> \o b

ExampleCom == <<"e", "x", "a", "m", "p", "l", "e", ".", "c", "o", "m">>
Host999_1_1_1 == <<"9", "9", "9", ".", "1", ".", "1", ".", "1">>
Host1_2_3 == <<"1", ".", "2", ".", "3">>
Host1_2_3_4 == <<"1", ".", "2", ".", "3", ".", "4">>
Host999x4 ==
    <<"9", "9", "9", ".", "9", "9", "9", ".", "9", "9", "9", ".", "9", "9", "9">>
HostV6Loopback == <<"[", ":", ":", "1", "]">>
HostV6Bad == <<"[", ":", ":", "z", "z", "z", "z", "]">>
HostV6Full ==
    <<"[", "1", ":", "2", ":", "3", ":", "4", ":", "5", ":", "6", ":", "7", ":", "8", "]">>
HostV6Seven == <<"[", "1", ":", "2", ":", "3", ":", "4", ":", "5", ":", "6", ":", "7", "]">>
HostV6Nine ==
    <<"[", "1", ":", "2", ":", "3", ":", "4", ":", "5", ":", "6", ":", "7", ":", "8", ":", "9", "]">>
HostV6TooMany ==
    <<"[", "1", ":", "2", ":", "3", ":", "4", ":", ":", "5", ":", "6", ":", "7", ":", "8", "]">>

HostTexts ==
    TextsUpTo(HostAlphabet, MaxHostLen)
    \cup {Dotted(Dotted(a, b), Dotted(c, d)) : a, b, c, d \in OctetTexts}
    \cup {Dotted(a, Dotted(b, c)) : a, b, c \in OctetTexts}
    \cup {Dotted(<<"1">>, Dotted(Dotted(a, b), Dotted(c, <<"1">>))) : a, b, c \in OctetTexts}
    \cup {<<"[">> \o t \o <<"]">> : t \in TextsUpTo(Ipv6Alphabet, MaxV6Len)}
    \cup {<<"[">> \o t : t \in TextsUpTo(Ipv6Alphabet, 2)}
    \cup {t \o <<"]">> : t \in TextsUpTo(Ipv6Alphabet, 2)}
    \cup { ExampleCom, Host999_1_1_1, Host1_2_3, Host1_2_3_4, Host999x4,
           HostV6Loopback, HostV6Bad, HostV6Full, HostV6Seven, HostV6Nine,
           HostV6TooMany }

HostInputs == {None} \cup {Some(t) : t \in HostTexts}

NoResponse == [kind |-> "none", status |-> 0, decodable |-> FALSE, body |-> <<>>]

IdleMain ==
    /\ url_input = <<>> /\ method_input = <<>> /\ data = None /\ pc = "idle"
    /\ method = <<>> /\ url = Pending /\ out = <<>> /\ requests = <<>>
    /\ calls = <<>> /\ answer = NoResponse /\ result = Pending
IdleHost == h_in = None /\ h_out = Pending
IdleData == d_in = <<>> /\ d_out = <<>>
IdleJson == j_in = <<>> /\ j_out = <<>>

InitHost ==
    /\ h_in \in HostInputs
    /\ h_out = Pending
    /\ IdleMain /\ IdleData /\ IdleJson

\* check_ip_address(&url) on the drawn host.
CheckHost ==
    /\ h_out = Pending
    /\ h_out' = check_ip_address(h_in)
    /\ UNCHANGED <<h_in, mainVars, dataVars, jsonVars>>

NextHost == CheckHost

SpecHost == InitHost /\ [][NextHost]_vars

----------------------------------------------------------------------------
(* parse_data (main.rs:179-188), and SpecData, which draws a body string   *)
(* and applies it.                                                         *)

\* Longest body string enumerated over DataAlphabet.
MaxDataLen == 5

\* Index of the first position >= i of s holding character c (Len(s) + 1
\* when there is none).
RECURSIVE FindChar(_, _, _)
FindChar(s, i, c) ==
    IF i > Len(s) \/ s[i] = c THEN i ELSE FindChar(s, i + 1, c)

\* str::split(c): the pieces of s between the occurrences of c; a text
\* without c is its own single piece.
RECURSIVE split(_, _)
split(s, c) ==
    LET j == FindChar(s, 1, c)
    IN IF j > Len(s) THEN <<s>>
       ELSE <<SubSeq(s, 1, j - 1)>> \o split(From(s, j + 1), c)

\* A faulty variant: the pair is split at every '=', and the value ends at the second.
split_every(pair, c) == split(pair, c)

\* str::splitn(2, c): the text before the first c and the text after it.
splitn2(pair, c) ==
    LET j == FindChar(pair, 1, c)
    IN IF j > Len(pair) THEN <<pair>>
       ELSE <<SubSeq(pair, 1, j - 1), From(pair, j + 1)>>

\* key_value.next().unwrap_or(""): the n-th piece, or "" when there is none.
NextOrEmpty(pieces, n) == IF n <= Len(pieces) THEN pieces[n] ELSE <<>>

\* HashMap::new()
EmptyMap == [k \in {} |-> <<>>]

\* A faulty variant: an existing key keeps its first value.
HashMapInsertIfAbsent(params, key, value) ==
    [k \in DOMAIN params \cup {key} |-> IF k \in DOMAIN params THEN params[k] ELSE value]

\* HashMap::insert: the key's value is replaced.
HashMapInsert(params, key, value) ==
    [k \in DOMAIN params \cup {key} |-> IF k = key THEN value ELSE params[k]]

\* The loop of parse_data from the i-th pair on.
RECURSIVE InsertPairs(_, _, _)
InsertPairs(pairs, i, params) ==
    IF i > Len(pairs) THEN params
    ELSE LET key_value == splitn2(pairs[i], "=")
             key == NextOrEmpty(key_value, 1)
             value == NextOrEmpty(key_value, 2)
         IN InsertPairs(pairs, i + 1, HashMapInsert(params, key, value))

parse_data(data_str) == InsertPairs(split(data_str, "&"), 1, EmptyMap)

DataAlphabet == {"a", "b", "=", "&", "1"}

\* "a=1&b=2&a=3"
DataExample == <<"a", "=", "1", "&", "b", "=", "2", "&", "a", "=", "3">>
\* "a=1=2&b"
DataTwoEquals == <<"a", "=", "1", "=", "2", "&", "b">>

DataTexts == TextsUpTo(DataAlphabet, MaxDataLen) \cup {DataExample, DataTwoEquals}

NotParsed == [done |-> FALSE, params |-> EmptyMap]

InitData ==
    /\ d_in \in DataTexts
    /\ d_out = NotParsed
    /\ IdleMain /\ IdleHost /\ IdleJson

\* parse_data(&data_str) on the drawn body string.
ParseData ==
    /\ ~d_out.done
    /\ d_out' = [done |-> TRUE, params |-> parse_data(d_in)]
    /\ UNCHANGED <<d_in, mainVars, hostVars, jsonVars>>

NextData == ParseData

SpecData == InitData /\ [][NextData]_vars

----------------------------------------------------------------------------
(* serde_json::Value, and a body text as the sequence of its JSON lexemes. *)

\* Most entries of an array or object of the first nesting levels.
MaxJsonLen == 2
\* Longest body enumerated over TokenAlphabet.
MaxTokLen == 4

\* A Value: its variant t, and the text of a scalar, the elements of an
\* array or the map of an object.  A Map<String, Value> is the sequence of
\* its <<key, value>> entries in iteration order.
JVal(t, s, elems, map) == [t |-> t, s |-> s, elems |-> elems, map |-> map]
JNull == JVal("null", <<>>, <<>>, <<>>)
JBool(b) == JVal("bool", <<b>>, <<>>, <<>>)
JNum(digits) == JVal("num", digits, <<>>, <<>>)
JStr(chars) == JVal("str", chars, <<>>, <<>>)
JArr(elems) == JVal("arr", <<>>, elems, <<>>)
JObj(map) == JVal("obj", <<>>, <<>>, map)

Tok(k, s) == [k |-> k, s |-> s]
Punct(k) == Tok(k, <<>>)

\* Map::insert: an existing key's value is replaced where it stands, a new
\* key is added last.
MapInsert(map, key, value) ==
    IF \E i \in 1..Len(map) : map[i][1] = key
    THEN [i \in 1..Len(map) |-> IF map[i][1] = key THEN <<key, value>> ELSE map[i]]
    ELSE Append(map, <<key, value>>)

\* Map::get(key).unwrap()
MapGet(map, key) == map[CHOOSE i \in 1..Len(map) : map[i][1] = key][2]

\* Map::keys().collect()
MapKeys(map) == [i \in 1..Len(map) |-> map[i][1]]

ParseFail == [ok |-> FALSE, val |-> JNull, next |-> 0]
Parsed(val, next) == [ok |-> TRUE, val |-> val, next |-> next]

\* serde_json's recursive descent: the value starting at lexeme i.
RECURSIVE ParseValue(_, _)
RECURSIVE ParseElements(_, _, _)
RECURSIVE ParseMembers(_, _, _)
ParseValue(toks, i) ==
    IF i > Len(toks) THEN ParseFail
    ELSE LET k == toks[i].k
         IN CASE k = "null" -> Parsed(JNull, i + 1)
              [] k \in {"true", "false"} -> Parsed(JBool(k), i + 1)
              [] k = "number" -> Parsed(JNum(toks[i].s), i + 1)
              [] k = "string" -> Parsed(JStr(toks[i].s), i + 1)
              [] k = "[" ->
                    IF i + 1 <= Len(toks) /\ toks[i + 1].k = "]"
                    THEN Parsed(JArr(<<>>), i + 2)
                    ELSE ParseElements(toks, i + 1, <<>>)
              [] k = "{" ->
                    IF i + 1 <= Len(toks) /\ toks[i + 1].k = "}"
                    THEN Parsed(JObj(<<>>), i + 2)
                    ELSE ParseMembers(toks, i + 1, <<>>)
              [] OTHER -> ParseFail

ParseElements(toks, i, acc) ==
    LET r == ParseValue(toks, i)
    IN IF ~r.ok \/ r.next > Len(toks) THEN ParseFail
       ELSE IF toks[r.next].k = "," THEN ParseElements(toks, r.next + 1, Append(acc, r.val))
       ELSE IF toks[r.next].k = "]" THEN Parsed(JArr(Append(acc, r.val)), r.next + 1)
       ELSE ParseFail

ParseMembers(toks, i, acc) ==
    IF i + 1 > Len(toks) \/ toks[i].k # "string" \/ toks[i + 1].k # ":" THEN ParseFail
    ELSE LET r == ParseValue(toks, i + 2)
         IN IF ~r.ok \/ r.next > Len(toks) THEN ParseFail
            ELSE IF toks[r.next].k = ","
                 THEN ParseMembers(toks, r.next + 1, MapInsert(acc, toks[i].s, r.val))
            ELSE IF toks[r.next].k = "}"
                 THEN Parsed(JObj(MapInsert(acc, toks[i].s, r.val)), r.next + 1)
            ELSE ParseFail

\* serde_json::from_str::<Value>: one value and nothing after it.
from_str(text) ==
    LET r == ParseValue(text, 1)
    IN IF r.ok /\ r.next = Len(text) + 1 THEN Ok(r.val) ELSE Err(<<"syntax error">>)

\* The texts of seqs[1], seqs[2], ... with sep between them.
RECURSIVE Join(_, _)
Join(seqs, sep) ==
    IF Len(seqs) = 0 THEN <<>>
    ELSE IF Len(seqs) = 1 THEN seqs[1]
    ELSE seqs[1] \o sep \o Join(Tail(seqs), sep)

\* serde_json::to_string_pretty, by lexemes (white space is not modelled).
RECURSIVE to_string_pretty(_)
to_string_pretty(value) ==
    CASE value.t = "null" -> <<Punct("null")>>
      [] value.t = "bool" -> <<Punct(value.s[1])>>
      [] value.t = "num" -> <<Tok("number", value.s)>>
      [] value.t = "str" -> <<Tok("string", value.s)>>
      [] value.t = "arr" ->
            <<Punct("[")>>
            \o Join([i \in 1..Len(value.elems) |-> to_string_pretty(value.elems[i])],
                    <<Punct(",")>>)
            \o <<Punct("]")>>
      [] value.t = "obj" ->
            <<Punct("{")>>
            \o Join([i \in 1..Len(value.map) |->
                        <<Tok("string", value.map[i][1]), Punct(":")>>
                        \o to_string_pretty(value.map[i][2])], <<Punct(",")>>)
            \o <<Punct("}")>>

----------------------------------------------------------------------------
(* sort_json (main.rs:214-232), print_json_sorted (207-211) and            *)
(* handle_response (191-204).                                              *)

\* The code point of a character of the keys.
CharCode(c) ==
    CASE c = "1" -> 49 [] c = "B" -> 66 [] c = "a" -> 97 [] c = "b" -> 98 [] c = "s" -> 115

\* String's Ord: byte-wise, a proper prefix first.
RECURSIVE StringLess(_, _)
StringLess(a, b) ==
    IF Len(b) = 0 THEN FALSE
    ELSE IF Len(a) = 0 THEN TRUE
    ELSE IF a[1] # b[1] THEN CharCode(a[1]) < CharCode(b[1])
    ELSE StringLess(Tail(a), Tail(b))

\* key placed into the sorted sequence of keys.
RECURSIVE InsertSorted(_, _)
InsertSorted(sorted, key) ==
    IF Len(sorted) = 0 THEN <<key>>
    ELSE IF StringLess(key, sorted[1]) THEN <<key>> \o sorted
    ELSE <<sorted[1]>> \o InsertSorted(Tail(sorted), key)

\* A faulty variant: the keys are left in the map's order.
sort_skipped(keys) == keys

\* keys.sort()
RECURSIVE sort(_)
sort(keys) ==
    IF Len(keys) = 0 THEN <<>>
    ELSE InsertSorted(sort(SubSeq(keys, 1, Len(keys) - 1)), keys[Len(keys)])

\* A faulty variant: the elements of an array are cloned, not sorted.
sort_array_shallow(arr, sorted) == arr

\* arr.iter().map(|v| sort_json(v)).collect(), given the sorted elements.
sort_array(arr, sorted) == sorted

RECURSIVE sort_json(_)
\* The loop of main.rs:220-223 from the i-th key on.
RECURSIVE InsertSortedEntries(_, _, _, _)
InsertSortedEntries(map, keys, i, sorted_map) ==
    IF i > Len(keys) THEN sorted_map
    ELSE LET val == MapGet(map, keys[i])
         IN InsertSortedEntries(map, keys, i + 1,
                                MapInsert(sorted_map, keys[i], sort_json(val)))

sort_json(value) ==
    CASE value.t = "obj" ->
            JObj(InsertSortedEntries(value.map, sort(MapKeys(value.map)), 1, <<>>))
      [] value.t = "arr" ->
            JArr(sort_array(value.elems,
                            [i \in 1..Len(value.elems) |-> sort_json(value.elems[i])]))
      [] OTHER -> value

JsonHeader == "Response body (JSON with sorted keys):"
PlainHeader == "Response:"

\* The lines print_json_sorted prints.
print_json_sorted(value) == <<BodyLine("", to_string_pretty(sort_json(value)))>>

\* The lines handle_response prints.
handle_response(response) ==
    LET parsed == from_str(response)
    IN IF parsed.ok
       THEN <<Line(JsonHeader, <<>>)>> \o print_json_sorted(parsed.val)
       ELSE <<BodyLine(PlainHeader, response)>>

----------------------------------------------------------------------------
(* handle_response alone: SpecJson draws a body and renders it.            *)

JsonKeys == {<<"B">>, <<"a">>, <<"a", "b">>}

One == JNum(<<"1">>)
Scalars == {JNull, JBool("true"), One, JStr(<<"s">>)}

\* The sequences of at most n members of S.
SeqsUpTo(S, n) == UNION {[1..k -> S] : k \in 0..n}

ArraysOver(V, n) == {JArr(elems) : elems \in SeqsUpTo(V, n)}

\* The maps of at most n entries with values in V: no key twice.
ObjectsOver(V, n) ==
    {JObj(map) : map \in {m \in SeqsUpTo(JsonKeys \X V, n) :
                            \A i, j \in 1..Len(m) : m[i][1] = m[j][1] => i = j}}

\* Arrays and objects of scalars.
Json1 == ArraysOver({One, JStr(<<"s">>)}, MaxJsonLen) \cup ObjectsOver({One, JNull}, MaxJsonLen)

\* The full containers of Json1 whose entries are all 1.
Json1Full ==
    {x \in ArraysOver({One}, MaxJsonLen) \cup ObjectsOver({One}, MaxJsonLen) :
        Len(x.elems) + Len(x.map) = MaxJsonLen}

\* Arrays and objects of those and of 1.
Json2 ==
    ArraysOver(Json1Full \cup {One}, MaxJsonLen)
    \cup ObjectsOver(Json1Full \cup {One}, MaxJsonLen)

\* The full arrays of Json2 whose elements are all objects.
Json2ArraysOfObjects ==
    {x \in ArraysOver({y \in Json1Full : y.t = "obj"}, MaxJsonLen) :
        Len(x.elems) = MaxJsonLen}

\* One more level around those.
Json3 == ArraysOver(Json2ArraysOfObjects, 1) \cup ObjectsOver(Json2ArraysOfObjects, 1)

JsonValues == Scalars \cup Json1 \cup Json2 \cup Json3

TokenAlphabet ==
    { Punct("{"), Punct("}"), Punct("["), Punct("]"), Punct(":"), Punct(","),
      Tok("string", <<"a">>), Tok("number", <<"1">>) }

\* {"a":1,"B":1,"a":"s"}: a key twice.
BodyDuplicateKey ==
    << Punct("{"), Tok("string", <<"a">>), Punct(":"), Tok("number", <<"1">>), Punct(","),
       Tok("string", <<"B">>), Punct(":"), Tok("number", <<"1">>), Punct(","),
       Tok("string", <<"a">>), Punct(":"), Tok("string", <<"s">>), Punct("}") >>
\* {"b":2,"a":1}
BodyBA ==
    << Punct("{"), Tok("string", <<"b">>), Punct(":"), Tok("number", <<"2">>), Punct(","),
       Tok("string", <<"a">>), Punct(":"), Tok("number", <<"1">>), Punct("}") >>
\* not json{
BodyNotJson == <<Tok("junk", <<"n", "o", "t", " ", "j", "s", "o", "n">>), Punct("{")>>

BodyTexts ==
    {to_string_pretty(x) : x \in JsonValues}
    \cup SeqsUpTo(TokenAlphabet, MaxTokLen)
    \cup {BodyDuplicateKey, BodyBA, BodyNotJson}

NotRendered == [done |-> FALSE, lines |-> <<>>]

InitJson ==
    /\ j_in \in BodyTexts
    /\ j_out = NotRendered
    /\ IdleMain /\ IdleHost /\ IdleData

\* handle_response(&response) on the drawn body.
HandleResponse ==
    /\ ~j_out.done
    /\ j_out' = [done |-> TRUE, lines |-> handle_response(j_in)]
    /\ UNCHANGED <<j_in, mainVars, hostVars, dataVars>>

NextJson == HandleResponse

SpecJson == InitJson /\ [][NextJson]_vars

----------------------------------------------------------------------------
(* url::Url::parse, as called at main.rs:33, on a URL given by its          *)
(* components as written: scheme ("" when the text has none), host and      *)
(* port.  "http" is a special scheme, whose host is a domain or an IP       *)
(* address; "foo" is not, and its host is kept as written; "mailto" has no  *)
(* authority.  The hosts drawn have no octal or hexadecimal labels, and     *)
(* their IPv6 literals are written as the crate serialises them.            *)

\* u16::MAX: Url::port() is an Option<u16>.
PortMax == 65535

UrlOf(scheme, host, port) == [scheme |-> scheme, host |-> host, port |-> port]

\* The value of a decimal numeral.
RECURSIVE DecValue(_)
DecValue(part) ==
    IF Len(part) = 0 THEN 0
    ELSE DecValue(SubSeq(part, 1, Len(part) - 1)) * 10 + DigitVal(part[Len(part)])

IsNumber(part) == Len(part) >= 1 /\ \A i \in 1..Len(part) : part[i] \in Digits

\* The labels of a host, without the empty label a trailing dot leaves.
Labels(h) ==
    LET parts == split(h, ".")
    IN IF Len(parts) > 1 /\ parts[Len(parts)] = <<>>
       THEN SubSeq(parts, 1, Len(parts) - 1)
       ELSE parts

\* The host ends in a number: the URL standard then parses it as IPv4.
EndsInNumber(h) == IsNumber(Labels(h)[Len(Labels(h))])

\* 256 to the n.
RECURSIVE Pow256(_)
Pow256(n) == IF n = 0 THEN 1 ELSE 256 * Pow256(n - 1)

\* The address the labels stand for from label i on, the last label filling
\* the bytes that are left.
RECURSIVE Ipv4Number(_, _)
Ipv4Number(labels, i) ==
    IF i = Len(labels) THEN DecValue(labels[i])
    ELSE DecValue(labels[i]) * Pow256(4 - i) + Ipv4Number(labels, i + 1)

\* The URL standard's IPv4 parser: at most four numbers, all but the last
\* at most 255, the last within the bytes that are left.
Ipv4ParseOk(h) ==
    LET labels == Labels(h)
    IN /\ Len(labels) <= 4
       /\ \A i \in 1..Len(labels) : IsNumber(labels[i])
       /\ \A i \in 1..(Len(labels) - 1) : DecValue(labels[i]) <= 255
       /\ DecValue(labels[Len(labels)]) < Pow256(5 - Len(labels))

DigitChar(d) ==
    CASE d = 0 -> "0" [] d = 1 -> "1" [] d = 2 -> "2" [] d = 3 -> "3" [] d = 4 -> "4"
      [] d = 5 -> "5" [] d = 6 -> "6" [] d = 7 -> "7" [] d = 8 -> "8" [] d = 9 -> "9"

\* The decimal numeral of a natural number ({} of an integer).
RECURSIVE Dec(_)
Dec(n) == IF n < 10 THEN <<DigitChar(n)>> ELSE Dec(n \div 10) \o <<DigitChar(n % 10)>>

\* The IPv4 address n as the crate serialises it.
Ipv4Text(n) ==
    Dec(n \div Pow256(3)) \o <<".">> \o Dec((n \div Pow256(2)) % 256) \o <<".">>
    \o Dec((n \div 256) % 256) \o <<".">> \o Dec(n % 256)

DefaultPort(scheme) == IF scheme = "http" THEN Some(80) ELSE None

\* The host of the parsed URL, or the ParseError of the host.
ParseHost(scheme, h) ==
    IF starts_with(h, "[")
    THEN IF ends_with(h, "]") /\ Ipv6FromStr(SubSeq(h, 2, Len(h) - 1))
         THEN Ok(h)
         ELSE Err(<<"InvalidIpv6Address">>)
    ELSE IF scheme # "http" THEN Ok(h)
    ELSE IF Len(h) = 0 THEN Err(<<"EmptyHost">>)
    ELSE IF ~EndsInNumber(h) THEN Ok(h)
    ELSE IF Ipv4ParseOk(h) THEN Ok(Ipv4Text(Ipv4Number(Labels(h), 1)))
    ELSE Err(<<"InvalidIpv4Address">>)

\* Url::parse: the Url (host_str() and port()) or the ParseError.
UrlParse(input) ==
    IF input.scheme = "" THEN Err(<<"RelativeUrlWithoutBase">>)
    ELSE IF input.scheme = "mailto" THEN Ok(UrlOf(input.scheme, None, None))
    ELSE LET host == ParseHost(input.scheme, input.host.val)
         IN IF ~host.ok THEN Err(host.err)
            ELSE IF input.port.some /\ input.port.val > PortMax THEN Err(<<"InvalidPort">>)
            ELSE Ok(UrlOf(input.scheme, Some(host.val),
                          IF input.port = DefaultPort(input.scheme) THEN None ELSE input.port))

\* What {} prints of a URL given by its components.
UrlText(u) ==
    <<u.scheme, ":">>
    \o (IF u.host.some THEN <<"//">> \o u.host.val ELSE <<>>)
    \o (IF u.port.some THEN <<":">> \o Dec(u.port.val) ELSE <<>>)

----------------------------------------------------------------------------
(* main (main.rs:26-87), check_port_number (120-132), make_request         *)
(* (135-176).                                                              *)

\* A faulty variant: the bound itself is refused.
check_port_number_off_by_one(port) ==
    IF port.some
    THEN IF port.val >= PortMax THEN Err(InvalidPortMsg) ELSE Ok(<<>>)
    ELSE Ok(<<>>)

check_port_number(port) ==
    IF port.some
    THEN IF port.val > PortMax THEN Err(InvalidPortMsg) ELSE Ok(<<>>)
    ELSE Ok(<<>>)

UpperChar(c) ==
    CASE c = "a" -> "A" [] c = "d" -> "D" [] c = "e" -> "E" [] c = "g" -> "G"
      [] c = "l" -> "L" [] c = "o" -> "O" [] c = "p" -> "P" [] c = "s" -> "S"
      [] c = "t" -> "T" [] c = "u" -> "U" [] OTHER -> c

\* A faulty variant: the method is compared as typed.
to_uppercase_skipped(text) == text

\* String::to_uppercase
to_uppercase(text) == [i \in 1..Len(text) |-> UpperChar(text[i])]

GET == <<"G", "E", "T">>
POST == <<"P", "O", "S", "T">>

\* The println! of main.rs:68-84 for a ParseError.
ParseErrorMsg(e) ==
    CASE e = <<"RelativeUrlWithoutBase">> -> Msg("The URL does not have a valid base protocol.", <<>>)
      [] e = <<"InvalidIpv6Address">> -> InvalidIpv6Msg
      [] e = <<"InvalidIpv4Address">> -> InvalidIpv4Msg
      [] e = <<"InvalidPort">> -> InvalidPortMsg
      [] OTHER -> Msg("Invalid URL: ", e)

\* The lines main.rs:35-40 and 61-66 print.
Echo(url_text, m, d) ==
    <<Line("Requesting URL: ", url_text), Line("Method: ", m)>>
    \o (IF d.some THEN <<Line("Data: ", d.val)>> ELSE <<>>)

ErrorLine(e) == Line("Error: ", e)

\* A faulty variant: the status is a success unless it is a server's or a client's error.
is_success_below_400(status) == status < 400

\* StatusCode::is_success
is_success(status) == 200 <= status /\ status <= 299

ConnectMsg ==
    Msg("Unable to connect to the server. Perhaps the network is offline or the server hostname cannot be resolved.", <<>>)

\* The match of main.rs:154-175 on what send() returned.
ResultOf(resp) ==
    CASE resp.kind = "response" ->
            IF ~is_success(resp.status)
            THEN Err(Msg("Request failed with status code: ", Dec(resp.status) \o <<".">>))
            ELSE IF resp.decodable THEN Ok(resp.body)
            ELSE Err(Msg("Failed to read response text: ", <<"error decoding response body">>))
      [] resp.kind = "connect_error" -> Err(ConnectMsg)
      [] OTHER -> Err(Msg("Request Error: ", <<resp.kind>>))

\* A faulty variant: after a failed check main goes on to the next step.
AfterCheckIgnoringError(r, next) == next

\* Where main goes after a check that returned r: on, or to its end.
AfterCheck(r, next) == IF r.ok THEN next ELSE "done"

\* What send() may return: a response with a status, a body and whether
\* the body decodes as text, a connect failure, another failure.  The
\* transport refuses a scheme other than http(s) without connecting.
Statuses == {199, 200, 204, 299, 300, 404, 500}
MainBodies == {BodyBA, BodyNotJson, <<>>}
Failure(kind) == [kind |-> kind, status |-> 0, decodable |-> FALSE, body |-> <<>>]
TransportOutcomes(scheme) ==
    IF scheme = "http"
    THEN [kind : {"response"}, status : Statuses, decodable : BOOLEAN, body : MainBodies]
         \cup {Failure("connect_error"), Failure("timeout")}
    ELSE {Failure("builder error: URL scheme is not allowed")}

MainHosts ==
    {ExampleCom, Host1_2_3_4, Host999x4, Host999_1_1_1, Host1_2_3, HostV6Loopback, HostV6Bad}
MainPorts == {None, Some(0), Some(80), Some(8080), Some(PortMax), Some(PortMax + 1), Some(70000)}

UrlInputs ==
    {UrlOf(sch, Some(h), p) : sch \in {"http", "foo"}, h \in MainHosts, p \in MainPorts}
    \cup {UrlOf("http", Some(<<>>), None), UrlOf("mailto", None, None),
          UrlOf("", Some(ExampleCom), None), UrlOf("", Some(ExampleCom), Some(70000))}

MethodInputs ==
    {GET, <<"g", "e", "t">>, <<"P", "o", "s", "t">>, <<"P", "U", "T">>, <<"p", "u", "t">>}

DataInputs == {None, Some(DataExample), Some(<<"k">>)}

Init ==
    /\ url_input \in UrlInputs
    /\ method_input \in MethodInputs
    /\ data \in DataInputs
    /\ pc = "start"
    /\ method = <<>>
    /\ url = Pending
    /\ out = <<>>
    /\ requests = <<>>
    /\ calls = <<>>
    /\ answer = NoResponse
    /\ result = Pending
    /\ IdleHost /\ IdleData /\ IdleJson

Called(fn, r) == [fn |-> fn, ok |-> r.ok, err |-> r.err]

\* main.rs:27-40 and 60-85: the arguments, Url::parse, the echo, and the
\* error line of a URL that does not parse.
ParseUrl ==
    /\ pc = "start"
    /\ LET m == to_uppercase(method_input)
           parsed == UrlParse(url_input)
       IN /\ method' = m
          /\ url' = parsed
          /\ IF parsed.ok
             THEN /\ out' = Echo(UrlText(parsed.val), m, data)
                  /\ pc' = "check_ip"
             ELSE /\ out' = Echo(UrlText(url_input), m, data)
                              \o <<ErrorLine(ParseErrorMsg(parsed.err))>>
                  /\ pc' = "done"
    /\ UNCHANGED <<url_input, method_input, data, requests, calls, answer, result>>
    /\ UNCHANGED <<hostVars, dataVars, jsonVars>>

\* main.rs:43-44
CheckIpAddress ==
    /\ pc = "check_ip"
    /\ LET r == check_ip_address(url.val.host)
       IN /\ calls' = Append(calls, Called("check_ip_address", r))
          /\ out' = IF r.ok THEN out ELSE Append(out, ErrorLine(r.err))
          /\ pc' = AfterCheck(r, "check_port")
    /\ UNCHANGED <<url_input, method_input, data, method, url, requests, answer, result>>
    /\ UNCHANGED <<hostVars, dataVars, jsonVars>>

\* main.rs:45-46
CheckPortNumber ==
    /\ pc = "check_port"
    /\ LET r == check_port_number(url.val.port)
       IN /\ calls' = Append(calls, Called("check_port_number", r))
          /\ out' = IF r.ok THEN out ELSE Append(out, ErrorLine(r.err))
          /\ pc' = AfterCheck(r, "request")
    /\ UNCHANGED <<url_input, method_input, data, method, url, requests, answer, result>>
    /\ UNCHANGED <<hostVars, dataVars, jsonVars>>

Request(m, form) == [method |-> m, url |-> UrlText(url.val), form |-> form]

\* A faulty variant: the request is sent a second time.
SendTwice(sent, request) == Append(Append(sent, request), request)

\* RequestBuilder::send: the transport is handed the request, once.
Send(sent, request) == Append(sent, request)

\* main.rs:49 and make_request: the request of a supported method is sent
\* and what send() returns is matched; any other method is an error.
MakeRequest ==
    /\ pc = "request"
    /\ \E resp \in TransportOutcomes(url.val.scheme) :
          IF method = GET \/ method = POST
          THEN LET form == IF method = POST /\ data.some
                           THEN Some(parse_data(data.val))
                           ELSE None
               IN /\ requests' = Send(requests, Request(method, form))
                  /\ answer' = resp
                  /\ result' = ResultOf(resp)
                  /\ calls' = Append(calls, Called("make_request", ResultOf(resp)))
          ELSE LET r == Err(Msg("Unsupported HTTP method: ", method))
               IN /\ result' = r
                  /\ calls' = Append(calls, Called("make_request", r))
                  /\ UNCHANGED <<requests, answer>>
    /\ pc' = "respond"
    /\ UNCHANGED <<url_input, method_input, data, method, url, out>>
    /\ UNCHANGED <<hostVars, dataVars, jsonVars>>

\* main.rs:50-56: the response is rendered, or the error printed.
Respond ==
    /\ pc = "respond"
    /\ out' = IF result.ok
              THEN out \o handle_response(result.val)
              ELSE Append(out, ErrorLine(result.err))
    /\ pc' = "done"
    /\ UNCHANGED <<url_input, method_input, data, method, url, requests, calls, answer, result>>
    /\ UNCHANGED <<hostVars, dataVars, jsonVars>>

Next == ParseUrl \/ CheckIpAddress \/ CheckPortNumber \/ MakeRequest \/ Respond

Spec == Init /\ [][Next]_vars

----------------------------------------------------------------------------
(* Properties of check_ip_address (SpecHost).                              *)

\* The decimal numerals of the octets 0..255.
OctetNumerals == {Dec(n) : n \in 0..255}

\* h is a.b.c.d with a, b, c and d numerals of octets.
IsDottedQuad(h) ==
    LET dots == {i \in 1..Len(h) : h[i] = "."}
    IN /\ Cardinality(dots) = 3
       /\ \E p \in dots, q \in dots, r \in dots :
            /\ p < q /\ q < r
            /\ SubSeq(h, 1, p - 1) \in OctetNumerals
            /\ SubSeq(h, p + 1, q - 1) \in OctetNumerals
            /\ SubSeq(h, q + 1, r - 1) \in OctetNumerals
            /\ SubSeq(h, r + 1, Len(h)) \in OctetNumerals

IsBracketed(h) == Len(h) >= 1 /\ h[1] = "[" /\ h[Len(h)] = "]"

\* The interior of a bracketed host.
Interior(h) == [i \in 1..(Len(h) - 2) |-> h[i + 1]]

DigitOrDotShaped(h) == {h[i] : i \in 1..Len(h)} \subseteq (Digits \cup {"."})

\* The outcome the ordered rules give a host.
HostOutcome(host) ==
    CASE ~host.some -> "NoHost"
      [] host.some /\ IsDottedQuad(host.val) -> "Valid"
      [] host.some /\ ~IsDottedQuad(host.val) /\ IsBracketed(host.val) ->
            IF Ipv6FromStr(Interior(host.val)) THEN "Valid" ELSE "InvalidHost(IPv6)"
      [] host.some /\ ~IsDottedQuad(host.val) /\ ~IsBracketed(host.val)
            /\ DigitOrDotShaped(host.val) -> "InvalidHost(IPv4)"
      [] OTHER -> "Valid"

\* The outcome a Result of check_ip_address stands for.
OutcomeOf(r) ==
    IF r.ok THEN "Valid"
    ELSE CASE r.err = NoHostMsg -> "NoHost"
           [] r.err = InvalidIpv6Msg -> "InvalidHost(IPv6)"
           [] r.err = InvalidIpv4Msg -> "InvalidHost(IPv4)"
           [] OTHER -> "?"

\* C5: check_ip_address classifies a host by the ordered rules: a dotted
\* quad of octets 0..255 is Valid; else a bracketed host is Valid iff its
\* interior parses as IPv6, otherwise InvalidHost(IPv6); else a host of
\* digits and dots only is InvalidHost(IPv4); else the host is Valid; a
\* missing host is NoHost.  "999.1.1.1" and "1.2.3" are rejected and
\* "example.com" is accepted.
C5_HostClassification ==
    h_out # Pending =>
        /\ OutcomeOf(h_out) = HostOutcome(h_in)
        /\ h_in \in {Some(Host999_1_1_1), Some(Host1_2_3)} => h_out = Err(InvalidIpv4Msg)
        /\ h_in \in {Some(ExampleCom), Some(Host1_2_3_4), Some(HostV6Loopback)} => h_out.ok
        /\ h_in = Some(HostV6Bad) => h_out = Err(InvalidIpv6Msg)

\* C5 witness: "999.1.1.1" has been checked and rejected as IPv4.
C5_Witness == h_in = Some(Host999_1_1_1) /\ h_out = Err(InvalidIpv4Msg)

----------------------------------------------------------------------------
(* Properties of parse_data (SpecData).                                    *)

\* The positions at which a pair of s starts: 1, and after every '&'.
PairStarts(s) == {1} \cup {i + 1 : i \in {j \in 1..Len(s) : s[j] = "&"}}

\* The pair of s starting at position p: up to the next '&' or the end.
PairAt(s, p) ==
    LET ends == {q \in p..(Len(s) + 1) :
                    /\ \A r \in p..(q - 1) : s[r] # "&"
                    /\ (q = Len(s) + 1 \/ s[q] = "&")}
    IN SubSeq(s, p, (CHOOSE q \in ends : TRUE) - 1)

HasEquals(pair) == \E i \in 1..Len(pair) : pair[i] = "="

\* The length of the longest prefix of a pair without '='.
KeyLen(pair) ==
    CHOOSE n \in 0..Len(pair) :
        /\ \A i \in 1..n : pair[i] # "="
        /\ (n = Len(pair) \/ pair[n + 1] = "=")

KeyOf(pair) == SubSeq(pair, 1, KeyLen(pair))
ValueOf(pair) == SubSeq(pair, KeyLen(pair) + 2, Len(pair))

\* C9: parse_data splits the body on '&' into pairs and each pair on its
\* first '=' into key and value; a pair without '=' has the empty value;
\* the mapping holds exactly the keys that occur, each with the value of
\* its last occurrence ("a=1&b=2&a=3" yields a -> "3", b -> "2").
C9_ParseDataLastWins ==
    d_out.done =>
        LET m == d_out.params
            starts == PairStarts(d_in)
        IN /\ DOMAIN m = {KeyOf(PairAt(d_in, p)) : p \in starts}
           /\ \A p \in starts :
                LET pair == PairAt(d_in, p)
                    later == {q \in starts : q > p /\ KeyOf(PairAt(d_in, q)) = KeyOf(pair)}
                IN later = {} =>
                     /\ m[KeyOf(pair)] = ValueOf(pair)
                     /\ ~HasEquals(pair) => (KeyOf(pair) = pair /\ m[pair] = <<>>)
           /\ d_in = DataExample => m = (<<"a">> :> <<"3">> @@ <<"b">> :> <<"2">>)

\* C9 witness: "a=1&b=2&a=3" has been parsed, and a maps to "3".
C9_Witness ==
    /\ d_in = DataExample
    /\ d_out.done
    /\ DOMAIN d_out.params = {<<"a">>, <<"b">>}
    /\ d_out.params[<<"a">>] = <<"3">>

----------------------------------------------------------------------------
(* Properties of sort_json and handle_response (SpecJson).                 *)

\* a comes before b in byte order: they first differ where a ends or where
\* a's character is the smaller.
KeyBefore(a, b) ==
    \E k \in 1..Len(b) :
        /\ \A i \in 1..(k - 1) : i <= Len(a) /\ a[i] = b[i]
        /\ \/ k = Len(a) + 1
           \/ k <= Len(a) /\ CharCode(a[k]) < CharCode(b[k])

\* Every object of x, at every depth, has its keys in ascending order.
RECURSIVE SortedDeep(_)
SortedDeep(x) ==
    /\ \A i \in 1..(Len(x.map) - 1) : KeyBefore(x.map[i][1], x.map[i + 1][1])
    /\ \A i \in 1..Len(x.map) : SortedDeep(x.map[i][2])
    /\ \A i \in 1..Len(x.elems) : SortedDeep(x.elems[i])

\* y is x up to the order of the keys of its objects: the same scalars, the
\* arrays of the same length and order, the objects of the same keys.
RECURSIVE SameUpToKeyOrder(_, _)
SameUpToKeyOrder(x, y) ==
    /\ x.t = y.t
    /\ x.s = y.s
    /\ Len(x.elems) = Len(y.elems)
    /\ \A i \in 1..Len(x.elems) : SameUpToKeyOrder(x.elems[i], y.elems[i])
    /\ Len(x.map) = Len(y.map)
    /\ {x.map[i][1] : i \in 1..Len(x.map)} = {y.map[i][1] : i \in 1..Len(y.map)}
    /\ \A i \in 1..Len(x.map), j \in 1..Len(y.map) :
          x.map[i][1] = y.map[j][1] => SameUpToKeyOrder(x.map[i][2], y.map[j][2])

\* The value printed on the line after the JSON header.
PrintedValue == from_str(j_out.lines[2].body)

\* C10: a body that parses as JSON value x is printed, under the JSON
\* header, as a value whose objects all have ascending keys at every depth
\* and that is x up to the order of keys (arrays keep length and order,
\* objects their keys and values, scalars are unchanged); a body that does
\* not parse is printed verbatim under the plain header, not as an error.
C10_SortJsonRender ==
    j_out.done =>
        IF from_str(j_in).ok
        THEN /\ Len(j_out.lines) = 2
             /\ j_out.lines[1] = Line(JsonHeader, <<>>)
             /\ j_out.lines[2].kind = ""
             /\ PrintedValue.ok
             /\ SortedDeep(PrintedValue.val)
             /\ SameUpToKeyOrder(from_str(j_in).val, PrintedValue.val)
        ELSE j_out.lines = <<BodyLine(PlainHeader, j_in)>>

\* C10 witness: a body whose value holds, inside an array inside an object,
\* an object with keys out of order has been rendered with sorted keys.
C10_Witness ==
    /\ j_out.done
    /\ from_str(j_in).ok
    /\ LET x == from_str(j_in).val
       IN /\ x.t = "obj" /\ Len(x.map) = 1
          /\ x.map[1][2].t = "arr" /\ Len(x.map[1][2].elems) >= 1
          /\ x.map[1][2].elems[1].t = "obj"
          /\ ~SortedDeep(x.map[1][2].elems[1])
    /\ Len(j_out.lines) = 2
    /\ SortedDeep(PrintedValue.val)

----------------------------------------------------------------------------
(* Properties of main (Spec).                                              *)

ErrorLines == {i \in 1..Len(out) : out[i].kind = "Error: "}
HeaderLines == {i \in 1..Len(out) : out[i].kind \in {JsonHeader, PlainHeader}}
\* The lines of a rendered response: a header, or the printed JSON.
ResponseLines == {i \in 1..Len(out) : out[i].kind \in {JsonHeader, PlainHeader, ""}}

CallsOf(fn) == {i \in 1..Len(calls) : calls[i].fn = fn}
Failed(fn) == \E i \in CallsOf(fn) : ~calls[i].ok

ParseFailed == pc # "start" /\ ~url.ok
ValidationFailed ==
    ParseFailed \/ Failed("check_ip_address") \/ Failed("check_port_number")

LastLine == out[Len(out)]

\* C1: once URL parsing, the host check or the port check has failed, the
\* run is at its end with one error line, the last, and no request has been
\* handed to the transport; a "foo" URL whose host the ordered rules reject
\* and a URL of host 999.999.999.999 (and no port) end so, the latter with
\* the invalid IPv4 line.
C1_NoRequestAfterValidationFailure ==
    /\ ValidationFailed =>
          /\ requests = <<>> /\ answer = NoResponse
          /\ pc = "done"
          /\ Cardinality(ErrorLines) = 1
          /\ LastLine.kind = "Error: "
    /\ (pc \notin {"start", "check_ip"} /\ url_input.scheme = "foo"
          /\ HostOutcome(url_input.host) # "Valid") => ValidationFailed
    /\ (pc \notin {"start", "check_ip"} /\ url_input.scheme \in {"http", "foo"}
          /\ url_input.host = Some(Host999x4) /\ ~url_input.port.some) =>
             /\ ValidationFailed
             /\ LastLine = ErrorLine(InvalidIpv4Msg)

\* C1 witness: the run of foo://999.999.999.999 with GET has ended on the
\* invalid IPv4 line of the host check, and nothing was sent.
C1_Witness ==
    /\ pc = "done"
    /\ url_input = UrlOf("foo", Some(Host999x4), None)
    /\ method = GET
    /\ Failed("check_ip_address")
    /\ LastLine = ErrorLine(InvalidIpv4Msg)
    /\ requests = <<>>

\* C2: the host check is the first call and the port check the second, made
\* only after the host check returned Ok; once the host check has failed
\* the port check is never called.
C2_HostThenPort ==
    /\ \A i \in CallsOf("check_ip_address") : i = 1
    /\ \A i \in CallsOf("check_port_number") :
          i = 2 /\ calls[1].fn = "check_ip_address" /\ calls[1].ok
    /\ pc = "check_port" => (Len(calls) = 1 /\ calls[1].ok)
    /\ Failed("check_ip_address") => (CallsOf("check_port_number") = {} /\ pc = "done")

\* C2 witness: a host check has failed and the run has ended without a
\* port check.
C2_Witness ==
    /\ pc = "done"
    /\ Failed("check_ip_address")
    /\ Len(calls) = 1

\* The lines after the echo are those of one rendered response.
RenderedOnly ==
    /\ ErrorLines = {}
    /\ Cardinality(HeaderLines) = 1
    /\ \/ /\ Len(out) >= 2
          /\ out[Len(out) - 1] = Line(JsonHeader, <<>>)
          /\ LastLine.kind = ""
          /\ ResponseLines = {Len(out) - 1, Len(out)}
       \/ /\ LastLine.kind = PlainHeader
          /\ ResponseLines = {Len(out)}

\* The one line after the echo is an error line.
ErrorOnly ==
    /\ Cardinality(ErrorLines) = 1
    /\ LastLine.kind = "Error: "
    /\ ResponseLines = {}

\* C3: a run that has ended has either rendered a full response (JSON with
\* sorted keys, or plain) and printed no error line, or printed exactly one
\* error line and rendered nothing: one of the two, never both.
C3_ResponseXorOneError ==
    pc = "done" =>
        /\ RenderedOnly \/ ErrorOnly
        /\ ~(RenderedOnly /\ ErrorOnly)
        /\ RenderedOnly <=> result.ok

\* C3 witness: a run has ended with a rendered JSON response and no error.
C3_Witness ==
    /\ pc = "done"
    /\ RenderedOnly
    /\ out[Len(out) - 1] = Line(JsonHeader, <<>>)

Supported == method = GET \/ method = POST

\* C4 as stated: every run that has ended has made exactly one request.
C4_ExactlyOneRequest == pc = "done" => Len(requests) = 1

\* C4, amended: a run makes at most one request, and exactly one when the
\* URL parsed, both checks passed and the method is GET or POST; once an
\* error line is printed the run is at its end, with that one error line,
\* and no step (so no further request) follows.
C4_AtMostOneRequest ==
    /\ Len(requests) <= 1
    /\ pc = "done" => (Len(requests) = 1 <=> (~ValidationFailed /\ Supported))
    /\ ErrorLines # {} =>
          /\ pc = "done"
          /\ Cardinality(ErrorLines) = 1
          /\ ~ENABLED Next

\* C4 witness: a run has ended on the error line of a non-2xx status after
\* its one request.
C4_Witness ==
    /\ pc = "done"
    /\ Len(requests) = 1
    /\ answer.kind = "response" /\ answer.status = 404
    /\ ErrorLines = {Len(out)}

\* C6 as stated: in the run of an otherwise valid URL (http://example.com)
\* the port check returns InvalidPort when the explicit port is outside
\* 0..65535 (70000), and no error when it is within (80) or absent.
C6_PortCheckRejectsOutOfRange ==
    (pc = "done" /\ url_input.scheme = "http" /\ url_input.host = Some(ExampleCom)) =>
        IF url_input.port.some /\ url_input.port.val \notin 0..PortMax
        THEN \E i \in CallsOf("check_port_number") : calls[i].err = InvalidPortMsg
        ELSE \E i \in CallsOf("check_port_number") : calls[i].ok

\* C6, amended: the port check returns no error for every port it is given:
\* the port of a parsed URL is absent or within 0..65535, because a URL
\* whose explicit port is above 65535 does not parse (an otherwise valid one
\* ends on the invalid port line of the parse error) and so never reaches
\* the port check.
C6_PortCheckNeverFails ==
    /\ ~Failed("check_port_number")
    /\ url.ok => (~url.val.port.some \/ url.val.port.val \in 0..PortMax)
    /\ (pc # "start" /\ url_input.port.some /\ url_input.port.val > PortMax) =>
          /\ ~url.ok
          /\ calls = <<>> /\ requests = <<>>
          /\ pc = "done"
          /\ (url_input.scheme = "http" /\ url_input.host = Some(ExampleCom))
                => LastLine = ErrorLine(InvalidPortMsg)
    /\ (pc \in {"request", "respond"} /\ url_input.port.some) =>
          /\ url_input.port.val <= PortMax
          /\ calls[2] = Called("check_port_number", Ok(<<>>))

\* C6 witness: the run of http://example.com:70000 has ended on the invalid
\* port line without a call of the port check.
C6_Witness ==
    /\ pc = "done"
    /\ url_input = UrlOf("http", Some(ExampleCom), Some(70000))
    /\ LastLine = ErrorLine(InvalidPortMsg)
    /\ calls = <<>>

PUT == <<"P", "U", "T">>

\* C7: make_request with a method that, upper-cased, is neither GET nor
\* POST returns the unsupported-method error naming the upper-cased method,
\* with or without a body, and hands nothing to the transport; "put" and
\* "PUT" are refused as PUT, "get" and "Post" are not refused.
C7_UnsupportedMethod ==
    pc \in {"respond", "done"} /\ CallsOf("make_request") # {} =>
        /\ method_input \in {PUT, <<"p", "u", "t">>} =>
              /\ result = Err(<<"Unsupported HTTP method: ">> \o PUT)
              /\ requests = <<>> /\ answer = NoResponse
        /\ method_input \in {GET, <<"g", "e", "t">>, <<"P", "o", "s", "t">>} =>
              /\ Len(requests) = 1
              /\ result.ok \/ result.err[1] # "Unsupported HTTP method: "
        /\ ~Supported => (result = Err(<<"Unsupported HTTP method: ">> \o method)
                           /\ requests = <<>>)

\* C7 witness: "put" with a body has been refused as PUT and nothing sent.
C7_Witness ==
    /\ pc = "done"
    /\ method_input = <<"p", "u", "t">>
    /\ data.some
    /\ LastLine = ErrorLine(<<"Unsupported HTTP method: ">> \o PUT)
    /\ requests = <<>>

\* The kind of a Result of make_request after a request was sent.
ResultKind(r) ==
    IF r.ok THEN "Body"
    ELSE CASE r.err[1] = "Request failed with status code: " -> "HTTPStatusError"
           [] r.err[1] = "Failed to read response text: " -> "BodyDecodeError"
           [] r.err = ConnectMsg -> "ConnectionError"
           [] r.err[1] = "Request Error: " -> "TransportError"
           [] OTHER -> "?"

\* The kind the transport's answer maps to.
AnswerKind(a) ==
    CASE a.kind = "connect_error" -> "ConnectionError"
      [] a.kind = "response" /\ a.status \div 100 # 2 -> "HTTPStatusError"
      [] a.kind = "response" /\ a.status \div 100 = 2 /\ a.decodable -> "Body"
      [] a.kind = "response" /\ a.status \div 100 = 2 /\ ~a.decodable -> "BodyDecodeError"
      [] OTHER -> "TransportError"

\* C8: for a supported method the answer of the transport maps to one
\* result: a 2xx status with a decodable body to the body text, any other
\* status to the status error naming the code, whose body is never
\* rendered, a 2xx status whose body does not decode to the decode error, a
\* connect failure to the connection error, any other failure to the
\* transport error with its message.
C8_TransportOutcome ==
    (pc \in {"respond", "done"} /\ CallsOf("make_request") # {} /\ Supported) =>
        /\ answer # NoResponse
        /\ ResultKind(result) = AnswerKind(answer)
        /\ result.ok => result.val = answer.body
        /\ ResultKind(result) = "HTTPStatusError" =>
              /\ result.err = <<"Request failed with status code: ">>
                                \o Dec(answer.status) \o <<".">>
              /\ ResponseLines = {}
        /\ ResultKind(result) = "TransportError" =>
              result.err = <<"Request Error: ", answer.kind>>

\* C8 witness: a 2xx answer whose body does not decode has ended the run on
\* the decode error.
C8_Witness ==
    /\ pc = "done"
    /\ answer.kind = "response" /\ answer.status = 204 /\ ~answer.decodable
    /\ ResultKind(result) = "BodyDecodeError"
    /\ LastLine = ErrorLine(result.err)

====
